---- MODULE Spec2Model ----
(***************************************************************************)
(* A model of src/sap.py: the session credential store, the session        *)
(* resolver, the SOAP client, the operation tools and the thread pool that *)
(* runs the elements of a batch.                                           *)
(*                                                                         *)
(* Python values are modelled by records with a fixed shape, so that       *)
(* values of different Python types can be compared: None is a record      *)
(* whose `none` field is TRUE, a dict is a function whose DOMAIN is its    *)
(* set of keys.                                                            *)
(***************************************************************************)
EXTENDS Integers, Sequences, FiniteSets, TLC

(***************************************************************************)
(* Bounds of the model.                                                    *)
(***************************************************************************)
\* The largest number of orders in one batch.
MaxBatch == 2
\* Request ids are 1..MaxRequestId (the JSON-RPC ids a client numbers its
\* requests with).
MaxRequestId == 2

\* SAPConfig.MAX_WORKERS: the environment sets it (SAP_MAX_WORKERS); the
\* model runs the pool with two worker threads.
MAX_WORKERS == 2

(***************************************************************************)
(* Values.                                                                 *)
(***************************************************************************)
Users == {"u1", "u2"}
Passwords == {"p1", "p2"}

\* An environment variable as os.environ.get returns it: None or a string.
EnvValues(strs) == {[none |-> TRUE]} \cup {[none |-> FALSE, val |-> s] : s \in strs \cup {""}}

\* Python truthiness of an Optional[str].
Truthy(e) == ~e.none /\ e.val # ""

\* {"user": u, "password": p}
CredDict(u, p) == [user |-> u, password |-> p]

\* The value of _default_credentials: None, or a credential dict.
NoDefault == [none |-> TRUE]
SomeDefault(u, p) == [none |-> FALSE, user |-> u, password |-> p]

\* Python truthiness of an Optional[dict]: not None and not empty.
DictTruthy(d) == ~d.none /\ DOMAIN d \ {"none"} # {}

\* What a call of get_credentials does: return a dict, or raise ValueError
\* with a message that names the session id.
Returned(d) == [raised |-> FALSE, user |-> d.user, password |-> d.password]
RaisedNotFound(session_id) ==
    [raised |-> TRUE, error |-> "ValueError", session |-> session_id]
\* self._credentials[session_id] on a key the dictionary does not hold.
RaisedKeyError(session_id) ==
    [raised |-> TRUE, error |-> "KeyError", session |-> session_id]

(***************************************************************************)
(* SessionCredentialStore: each method runs under self._lock, one critical *)
(* section per call, so a call is one atomic step on the dictionary.       *)
(***************************************************************************)
\* __init__: the default pair exists only when both variables are non-empty.
SessionCredentialStore_init(default_user, default_password) ==
    IF Truthy(default_user) /\ Truthy(default_password)
    THEN SomeDefault(default_user.val, default_password.val)
    ELSE NoDefault

\* self._credentials[session_id] = {...}: insert or overwrite one key.
DictPut(d, k, v) == [x \in DOMAIN d \cup {k} |-> IF x = k THEN v ELSE d[x]]
\* del self._credentials[session_id]
DictDel(d, k) == [x \in DOMAIN d \ {k} |-> d[x]]
EmptyDict == [x \in {} |-> CredDict("", "")]

\* A store that keeps one pair for all its sessions.
set_credentials_shared(creds, session_id, user, password) ==
    [x \in DOMAIN creds \cup {session_id} |-> CredDict(user, password)]

set_credentials(creds, session_id, user, password) ==
    DictPut(creds, session_id, CredDict(user, password))

\* A lookup that prefers the default pair to the session's own.
get_credentials_default_first(creds, dflt, session_id) ==
    IF ~dflt.none
    THEN Returned(dflt)
    ELSE IF session_id \in DOMAIN creds
         THEN Returned(creds[session_id])
         ELSE RaisedNotFound(session_id)

\* A lookup that falls back on another session's pair.
get_credentials_any_pair(creds, dflt, session_id) ==
    IF session_id \in DOMAIN creds
    THEN Returned(creds[session_id])
    ELSE IF DOMAIN creds # {}
         THEN Returned(creds[CHOOSE x \in DOMAIN creds : TRUE])
         ELSE IF ~dflt.none
              THEN Returned(dflt)
              ELSE RaisedNotFound(session_id)

get_credentials(creds, dflt, session_id) ==
    IF session_id \in DOMAIN creds
    THEN Returned(creds[session_id])
    ELSE IF DictTruthy(dflt)
         THEN Returned(dflt)
         ELSE RaisedNotFound(session_id)

\* A has_credentials that looks at the session's own pair only.
has_credentials_explicit_only(creds, dflt, session_id) ==
    session_id \in DOMAIN creds

\* `is not None` on the default, where get_credentials tests its truth.
has_credentials(creds, dflt, session_id) ==
    session_id \in DOMAIN creds \/ ~dflt.none

\* A clear that blanks the pair and keeps the key.
clear_credentials_blank(creds, session_id) ==
    IF session_id \in DOMAIN creds
    THEN DictPut(creds, session_id, CredDict("", ""))
    ELSE creds

clear_credentials(creds, session_id) ==
    IF session_id \in DOMAIN creds THEN DictDel(creds, session_id) ELSE creds

(***************************************************************************)
(* Session resolution.                                                     *)
(***************************************************************************)
\* A Python value that is an int or a str.
PyInt(i) == [is_int |-> TRUE, n |-> i, s |-> ""]
PyString(t) == [is_int |-> FALSE, n |-> 0, s |-> t]

Digit(d) == <<"0", "1", "2", "3", "4", "5", "6", "7", "8", "9">>[d + 1]
RECURSIVE NatToStr(_)
NatToStr(i) == IF i < 10 THEN Digit(i) ELSE NatToStr(i \div 10) \o Digit(i % 10)
IntToStr(i) == IF i < 0 THEN "-" \o NatToStr(0 - i) ELSE NatToStr(i)

\* str(v)
PyStr(v) == IF v.is_int THEN IntToStr(v.n) ELSE v.s

\* ctx.session.client_params: None, or the parameters the client sent when
\* it initialised its session.
NoParams == [none |-> TRUE, name |-> ""]
Params(name) == [none |-> FALSE, name |-> name]
\* str(ctx.session.client_params)
ParamsStr(p) ==
    IF p.none THEN "None"
    ELSE IF p.name = "" THEN "" ELSE "clientInfo=" \o p.name

\* The tool's ctx argument.  present: ctx is not None; the has_ fields are
\* the hasattr tests of the code.
NoCtx ==
    [present |-> FALSE, has_request_context |-> FALSE, has_request_id |-> FALSE,
     request_id |-> PyInt(0), has_session |-> FALSE, has_client_params |-> FALSE,
     client_params |-> NoParams]
\* The context of request rid of a session that exposes client_params.
ParamsCtx(rid, p) ==
    [present |-> TRUE, has_request_context |-> TRUE, has_request_id |-> TRUE,
     request_id |-> PyInt(rid), has_session |-> TRUE, has_client_params |-> TRUE,
     client_params |-> p]
\* The context of request rid of a session without client_params.
RequestCtx(rid) ==
    [present |-> TRUE, has_request_context |-> TRUE, has_request_id |-> TRUE,
     request_id |-> PyInt(rid), has_session |-> TRUE, has_client_params |-> FALSE,
     client_params |-> NoParams]

\* The logical callers: "none" calls the tools with no context, "A" is a
\* client session exposing client_params, "B" one that exposes none.
Clients == {"none", "A", "B"}
RequestIds == 1..MaxRequestId
ContextOf(client, rid) ==
    CASE client = "A" -> ParamsCtx(rid, Params("A"))
      [] client = "B" -> RequestCtx(rid)
      [] OTHER -> NoCtx

\* hash() of a str is fixed for the life of the process and unknown before
\* it starts (PYTHONHASHSEED): a function chosen at start.
HashValues == {-3, 7}
ClientInfoStrings == {ParamsStr(Params("A"))}
HashFunctions == [ClientInfoStrings -> HashValues]

\* A resolver that gives the calls with no ctx an id of their own.
_get_session_id_anonymous(ctx, hash) ==
    IF ctx.present /\ ctx.has_request_context
    THEN LET by_request == IF ctx.has_request_id THEN ctx.request_id
                           ELSE PyString("default")
             client_info == ParamsStr(ctx.client_params)
             session_id ==
                 IF ctx.has_session /\ ctx.has_client_params
                 THEN IF client_info # "" THEN PyInt(hash[client_info])
                      ELSE PyString("default")
                 ELSE by_request
         IN PyStr(session_id)
    ELSE "anonymous"

\* _get_session_id(ctx), with hash the process's hash function.
_get_session_id(ctx, hash) ==
    IF ctx.present /\ ctx.has_request_context
    THEN LET by_request == IF ctx.has_request_id THEN ctx.request_id
                           ELSE PyString("default")
             client_info == ParamsStr(ctx.client_params)
             session_id ==
                 IF ctx.has_session /\ ctx.has_client_params
                 THEN IF client_info # "" THEN PyInt(hash[client_info])
                      ELSE PyString("default")
                 ELSE by_request
         IN PyStr(session_id)
    ELSE "default"

\* A set_sap_credentials that keys the pair by the request id alone.
set_sap_credentials_by_request(ctx, hash) ==
    IF ctx.present /\ ctx.has_request_context
    THEN PyStr(IF ctx.has_request_id THEN ctx.request_id ELSE PyString("default"))
    ELSE "default"

\* The session id set_sap_credentials computes (its own copy of the logic).
set_sap_credentials_session_id(ctx, hash) ==
    IF ctx.present /\ ctx.has_request_context
    THEN LET by_request == IF ctx.has_request_id THEN ctx.request_id
                           ELSE PyString("default")
             client_info == ParamsStr(ctx.client_params)
             session_id ==
                 IF ctx.has_session /\ ctx.has_client_params
                 THEN IF client_info # "" THEN PyInt(hash[client_info])
                      ELSE PyString("default")
                 ELSE by_request
         IN PyStr(session_id)
    ELSE "default"

\* The session id check_session_credentials computes (its own copy).
check_session_credentials_session_id(ctx, hash) ==
    IF ctx.present /\ ctx.has_request_context
    THEN LET by_request == IF ctx.has_request_id THEN ctx.request_id
                           ELSE PyString("default")
             client_info == ParamsStr(ctx.client_params)
             session_id ==
                 IF ctx.has_session /\ ctx.has_client_params
                 THEN IF client_info # "" THEN PyInt(hash[client_info])
                      ELSE PyString("default")
                 ELSE by_request
         IN PyStr(session_id)
    ELSE "default"

\* Every session id a call of the model can resolve to.
SessionIds ==
    {_get_session_id(ContextOf(c, r), h) : c \in Clients, r \in RequestIds, h \in HashFunctions}

(***************************************************************************)
(* Orders and the request body of create_sales_order.                      *)
(***************************************************************************)
\* Python truthiness of an int or a str.
PyTruthy(v) == IF v.is_int THEN v.n # 0 ELSE v.s # ""

\* order_data.get(key, default)
DictGet(d, key, default) == IF key \in DOMAIN d THEN d[key] ELSE default

\* The orders a caller submits: dicts from field names to values.
Order1 ==
    [k \in {"CUST_PO", "CUST_PO_DATE", "MATERIAL", "QTY"} |->
        CASE k = "CUST_PO" -> PyString("PO1")
          [] k = "CUST_PO_DATE" -> PyString("2025-02-01")
          [] k = "MATERIAL" -> PyString("M1")
          [] OTHER -> PyInt(5)]
Order2 ==
    [k \in {"CUST_PO", "MATERIAL", "QTY", "PLANT", "UUID"} |->
        CASE k = "CUST_PO" -> PyString("PO2")
          [] k = "MATERIAL" -> PyString("M2")
          [] k = "QTY" -> PyInt(12)
          [] k = "PLANT" -> PyString("")
          [] OTHER -> PyString("id-2")]
Order3 == [k \in {} |-> PyString("")]
OrderAt(i) == <<Order1, Order2, Order3>>[((i - 1) % 3) + 1]
\* The batches of the model: the first n orders, n = 0..MaxBatch.
BatchInputs == {[i \in 1..n |-> OrderAt(i)] : n \in 0..MaxBatch}

\* The keyword arguments create_single_order passes to create_sales_order.
single_order_args(order_data) ==
    [CUST_PO |-> DictGet(order_data, "CUST_PO", PyString("")),
     CUST_PO_DATE |-> DictGet(order_data, "CUST_PO_DATE", PyString("")),
     MATERIAL |-> DictGet(order_data, "MATERIAL", PyString("")),
     QTY |-> DictGet(order_data, "QTY", PyInt(0)),
     UUID |-> DictGet(order_data, "UUID", PyString("")),
     ORDER_TYPE |-> DictGet(order_data, "ORDER_TYPE", PyString("ZIES")),
     SALES_ORG |-> DictGet(order_data, "SALES_ORG", PyString("TW01")),
     SALES_CHANNEL |-> DictGet(order_data, "SALES_CHANNEL", PyString("03")),
     SALES_DIVISION |-> DictGet(order_data, "SALES_DIVISION", PyString("01")),
     SOLD_TO_PARTY |-> DictGet(order_data, "SOLD_TO_PARTY", PyString("HRCTO-IMX")),
     SHIP_TO_PARTY |-> DictGet(order_data, "SHIP_TO_PARTY", PyString("HRCTO-MX")),
     PLANT |-> DictGet(order_data, "PLANT", PyString("TP01")),
     SHIPPING_POINT |-> DictGet(order_data, "SHIPPING_POINT", PyString("TW01"))]

\* The arguments of the direct calls of create_sales_order in the model.
DirectArgs == {single_order_args(Order1), single_order_args(Order2)}

\* X if X else default, formatted into the body.
OrElse(v, default) == IF PyTruthy(v) THEN PyStr(v) ELSE default

\* xml_body of create_sales_order: the text substituted for each element.
create_sales_order_body(a) ==
    LET cust_po_date_val == OrElse(a.CUST_PO_DATE, "2025-01-01")
    IN [root |-> "urn:ZBAPI_SALESORDER_CREATE",
        UUID |-> IF PyTruthy(a.UUID) THEN "<UUID>" \o PyStr(a.UUID) \o "</UUID>" ELSE "",
        CUST_PO |-> OrElse(a.CUST_PO, "TEST_PO"),
        CUST_PO_DATE |-> cust_po_date_val,
        MATERIAL_NO |-> "000010",
        MATERIAL |-> PyStr(a.MATERIAL),
        UNIT |-> "PCE",
        QTY |-> PyStr(a.QTY),
        PLANT |-> OrElse(a.PLANT, "TP01"),
        SHIPPING_POINT |-> OrElse(a.SHIPPING_POINT, "TW01"),
        DELIVERY_DATE |-> cust_po_date_val,
        ORDER_TYPE |-> OrElse(a.ORDER_TYPE, "ZIES"),
        SALES_CHANNEL |-> OrElse(a.SALES_CHANNEL, "03"),
        SALES_DIVISION |-> OrElse(a.SALES_DIVISION, "01"),
        SALES_ORG |-> OrElse(a.SALES_ORG, "TW01"),
        SHIP_TO_PARTY |-> OrElse(a.SHIP_TO_PARTY, "HRCTO-MX"),
        SOLD_TO_PARTY |-> OrElse(a.SOLD_TO_PARTY, "HRCTO-IMX")]

(***************************************************************************)
(* SAPClient.                                                              *)
(***************************************************************************)
\* SAPConfig.REQUEST_TIMEOUT, in seconds.
REQUEST_TIMEOUT == 300

\* A response text, by what xmltodict.parse makes of it: whether it is
\* well-formed, the name of its root element, the name of the body element
\* under the root ("" when there is none) and whether that element is empty.
Doc(wellformed, root, body, body_empty) ==
    [wellformed |-> wellformed, root |-> root, body |-> body, body_empty |-> body_empty]
SoapReply == Doc(TRUE, "soap-env:Envelope", "soap-env:Body", FALSE)
ErrorPage == Doc(TRUE, "html", "", TRUE)
NotXml == Doc(FALSE, "", "", TRUE)

\* What session.post does: return a response, raise requests Timeout, or
\* raise another exception.
Response(status, text) == [kind |-> "response", status |-> status, text |-> text]
TimeoutRaised == [kind |-> "timeout"]
ExceptionRaised(msg) == [kind |-> "exception", message |-> msg]
\* The outcomes of a send in the model.
NetOutcomes ==
    {Response(200, SoapReply), Response(500, ErrorPage), TimeoutRaised,
     ExceptionRaised("connection reset")}

EnvelopeNames == {"soap-env:Envelope", "soapenv:Envelope", "SOAP-ENV:Envelope"}
BodyNames == {"soap-env:Body", "soapenv:Body", "SOAP-ENV:Body"}

\* The strings post_soap returns, by the return statement that makes them.
BodyResult(text) == [kind |-> "body", of |-> text]
TextResult(text) == [kind |-> "text", text |-> text]
HttpErrorResult(status, text) == [kind |-> "http_error", status |-> status, text |-> text]
TimeoutResult(seconds) == [kind |-> "timeout", seconds |-> seconds]
ConnectionErrorResult(message) == [kind |-> "connection_error", message |-> message]

\* A post_soap whose last except clause lets the exception through.
post_soap_reraise(outcome) ==
    CASE outcome.kind = "timeout" -> TimeoutResult(REQUEST_TIMEOUT)
      [] outcome.kind = "exception" -> [kind |-> "raised", message |-> outcome.message]
      [] OTHER ->
            IF outcome.status = 200
            THEN IF outcome.text.wellformed
                    /\ outcome.text.root \in EnvelopeNames
                    /\ outcome.text.body \in BodyNames
                    /\ ~outcome.text.body_empty
                 THEN BodyResult(outcome.text)
                 ELSE TextResult(outcome.text)
            ELSE HttpErrorResult(outcome.status, outcome.text)

\* post_soap, given what session.post did.
post_soap(outcome) ==
    CASE outcome.kind = "timeout" -> TimeoutResult(REQUEST_TIMEOUT)
      [] outcome.kind = "exception" -> ConnectionErrorResult(outcome.message)
      [] OTHER ->
            IF outcome.status = 200
            THEN IF outcome.text.wellformed
                    /\ outcome.text.root \in EnvelopeNames
                    /\ outcome.text.body \in BodyNames
                    /\ ~outcome.text.body_empty
                 THEN BodyResult(outcome.text)
                 ELSE TextResult(outcome.text)
            ELSE HttpErrorResult(outcome.status, outcome.text)

\* The request a SAPClient sends: the service key, the pair it read from
\* the credential store when it was constructed, and the body.
Request(key, creds, body) ==
    [key |-> key, user |-> creds.user, password |-> creds.password, body |-> body]
\* A thread that is sending nothing.
NoRequest == [key |-> ""]

(***************************************************************************)
(* batch_create_sales_orders.create_single_order: the record of one        *)
(* element.                                                                *)
(***************************************************************************)
\* str(e) of the ValueError get_credentials raises.
NotFoundMessage(session_id) == "no credentials for session " \o session_id

\* order_data.get("CUST_PO", "unknown")
OrderTag(order_data) == DictGet(order_data, "CUST_PO", PyString("unknown"))

\* The send of an element that made none.
NoSend == [kind |-> "none"]

\* The records of create_single_order: the dict of its try branch and the
\* dict of its except clause.
SuccessRecord(order, result) == [success |-> TRUE, order |-> order, result |-> result]
FailureRecord(order, error) == [success |-> FALSE, order |-> order, error |-> error]

\* A future of the pool.  state and raised are the future's own: whether
\* its call has run, and whether it ended by an exception.  nth records the
\* run: how many futures of the batch had finished when this one did.
FuturePending == [state |-> "pending", raised |-> FALSE, nth |-> 0]
FutureRunning == [state |-> "running", raised |-> FALSE, nth |-> 0]
\* The call returned record; outcome records what the element's send did.
FutureReturned(record) ==
    [state |-> "finished", raised |-> FALSE, nth |-> 0, value |-> record,
     outcome |-> NoSend]
\* The call raised: future.result() raises in the thread that waits.
FutureRaised(error) ==
    [state |-> "finished", raised |-> TRUE, nth |-> 0, error |-> error,
     outcome |-> NoSend]

\* The try branch: create_sales_order returned result.
single_order_returned(order_data, result) ==
    FutureReturned(SuccessRecord(OrderTag(order_data), result))

\* A create_single_order with no except clause.
single_order_unhandled(order_data, error) == FutureRaised(error)

\* The except branch: create_sales_order raised e.
single_order_raised(order_data, error) ==
    FutureReturned(FailureRecord(OrderTag(order_data), error))

\* The number of futures of a batch that have finished.
FinishedCount(futs) == Cardinality({i \in DOMAIN futs : futs[i].state = "finished"})

\* results = [future.result() for future in futures] blocks on the futures
\* in list order: it ends when all have finished, or at the first future
\* that raised once those before it have finished.
FirstRaised(futs) ==
    IF \E i \in DOMAIN futs : futs[i].raised
    THEN CHOOSE i \in DOMAIN futs :
            futs[i].raised /\ \A j \in 1..(i - 1) : ~futs[j].raised
    ELSE 0
results_ready(futs) ==
    IF FirstRaised(futs) = 0
    THEN \A i \in DOMAIN futs : futs[i].state = "finished"
    ELSE \A i \in 1..FirstRaised(futs) : futs[i].state = "finished"

\* A results list in the order in which the futures finished.
batch_results_as_completed(futs) ==
    [k \in DOMAIN futs |-> futs[CHOOSE i \in DOMAIN futs : futs[i].nth = k].value]

\* The results list: the value of future i at index i.
batch_results(futs) == [i \in DOMAIN futs |-> futs[i].value]

(***************************************************************************)
(* State.                                                                  *)
(***************************************************************************)
\* The threads that call the tools and the store, and the pool's threads.
Callers == {"t1", "t2"}
Workers == 1..MAX_WORKERS

VARIABLES
    credentials,          \* credential_store._credentials
    default_credentials,  \* credential_store._default_credentials
    hash_of,              \* the process's hash() on the client_info strings
    pc,                   \* where each caller is in its call
    call,                 \* the tool each caller runs and its arguments
    sid,                  \* the local session_id of each caller's call
    request,              \* the request of a caller's own SAPClient
    futures,              \* the futures list of each caller's batch
    result,               \* what each caller's call returned or raised
    queue,                \* _thread_pool's work queue: <<caller, index>>
    worker,               \* what each pool thread is doing
    lock,                 \* the thread that holds credential_store._lock
    thread,               \* a thread inside a method of the store, by line
    ret,                  \* the last direct call of the store and its value
    ever_set,             \* history: the pairs ever set for each session id
    last_set,             \* history: the pair last set for each session id
                          \* and not cleared since
    submitted,            \* history: what get_credentials gave for the
                          \* session of each caller's batch when the batch
                          \* was submitted
    tl_session,           \* SAPClient._thread_local: the session attribute
                          \* of each thread that has one (a handle's number)
    handles,              \* the requests.Session objects created so far:
                          \* handle h was created by thread handles[h]
    post,                 \* a thread inside post_soap, by line
    held,                 \* the dict a caller got from get_credentials
    resolved              \* the session ids the three resolvers computed
                          \* for one ctx

storeVars == <<credentials, default_credentials, hash_of>>
callerVars == <<pc, call, sid, request, futures, result>>
poolVars == <<queue, worker>>
lockVars == <<lock, thread>>
historyVars == <<ret, ever_set, last_set, submitted>>
unitVars == <<tl_session, handles, post, held, resolved>>
vars == <<storeVars, callerVars, poolVars, lockVars, historyVars, unitVars>>

\* The tool a caller runs and its arguments; client and rid give its ctx.
NoCall == [tool |-> "none"]
SetCall(client, rid, username, password) ==
    [tool |-> "set_sap_credentials", client |-> client, rid |-> rid,
     username |-> username, password |-> password]
CheckCall(client, rid) ==
    [tool |-> "check_session_credentials", client |-> client, rid |-> rid]
CreateCall(client, rid, args) ==
    [tool |-> "create_sales_order", client |-> client, rid |-> rid, args |-> args]
BatchCall(client, rid, orders) ==
    [tool |-> "batch_create_sales_orders", client |-> client, rid |-> rid,
     orders |-> orders]

\* What a tool call returns, by its return statement, or that it raised.
NoResult == [kind |-> "none"]
CredentialsSet(session_id, username) ==
    [kind |-> "credentials_set", session |-> session_id, user |-> username]
HasCredentials(session_id, user) ==
    [kind |-> "has_credentials", session |-> session_id, user |-> user]
NoCredentials(session_id) == [kind |-> "no_credentials", session |-> session_id]
SoapReturned(soap) == [kind |-> "soap", soap |-> soap]
JsonReturned(records) == [kind |-> "json", records |-> records]
ToolRaised(error) == [kind |-> "raised", error |-> error]

IdleWorker == [state |-> "idle"]
Sending(c, i, req) == [state |-> "sending", caller |-> c, index |-> i, request |-> req]

\* A direct call of the store: its method, its arguments and its value.
NoStoreCall == [op |-> "none"]
SetCalled(session_id, user, password) ==
    [op |-> "set", session_id |-> session_id, user |-> user, password |-> password]
GetCalled(session_id, out) == [op |-> "get", session_id |-> session_id, out |-> out]
HasCalled(session_id, flag) == [op |-> "has", session_id |-> session_id, flag |-> flag]
ClearCalled(session_id) == [op |-> "clear", session_id |-> session_id]

\* The lock's holder when no thread holds it.
NoThread == "free"
\* A thread inside a store method: the method, its arguments, the line it
\* is at, the outcome of the method's membership test and the method's
\* value.
InStore(at, op, session_id, user, password, found, out, flag) ==
    [at |-> at, op |-> op, session_id |-> session_id, user |-> user,
     password |-> password, found |-> found, out |-> out, flag |-> flag]
NoOutcome == [raised |-> FALSE]
IdleThread == [at |-> "idle"]

\* last_set of a session with no explicit pair.
NotSet == [none |-> TRUE]
\* submitted of a caller that has no batch running, and of one that has.
NotSubmitted == [none |-> TRUE]
SubmittedWith(out) == [none |-> FALSE, out |-> out]

\* SAPClient._thread_local with no attribute set by any thread.
NoSessions == [k \in {} |-> 0]
\* A thread that is not inside post_soap.
NotPosting == [at |-> "idle"]
\* A caller that holds no dict of the store.
NothingHeld == [loc |-> "none"]
\* No ctx resolved yet.
NotResolved == [done |-> FALSE]

\* SAP_USER and SAP_PASSWORD as the process may find them.
EnvUsers == EnvValues({"envuser"})
EnvPasswords == EnvValues({"envpass"})

\* The state after the module is loaded, the process's hash function being
\* one of hashes.
Start(hashes) ==
    /\ credentials = EmptyDict
    /\ \E eu \in EnvUsers, ep \in EnvPasswords :
          default_credentials = SessionCredentialStore_init(eu, ep)
    /\ hash_of \in hashes
    /\ pc = [c \in Callers |-> "idle"]
    /\ call = [c \in Callers |-> NoCall]
    /\ sid = [c \in Callers |-> ""]
    /\ request = [c \in Callers |-> NoRequest]
    /\ futures = [c \in Callers |-> <<>>]
    /\ result = [c \in Callers |-> NoResult]
    /\ queue = <<>>
    /\ worker = [w \in Workers |-> IdleWorker]
    /\ lock = NoThread
    /\ thread = [t \in Callers |-> IdleThread]
    /\ ret = NoStoreCall
    /\ ever_set = [s \in SessionIds |-> {}]
    /\ last_set = [s \in SessionIds |-> NotSet]
    /\ submitted = [c \in Callers |-> NotSubmitted]
    /\ tl_session = NoSessions
    /\ handles = <<>>
    /\ post = [t \in Callers |-> NotPosting]
    /\ held = NothingHeld
    /\ resolved = NotResolved

\* The specifications whose calls hash no client_info start with one hash
\* function; InitSession starts with any.
Init == Start({CHOOSE h \in HashFunctions : TRUE})
InitSession == Start(HashFunctions)

(***************************************************************************)
(* Direct calls of the credential store, by any thread.                    *)
(***************************************************************************)
\* The pairs the model's callers set.
SetInputs == {CredDict("u1", "p1"), CredDict("u2", "p2")}
\* The session ids the direct calls use.
StoreSessionIds == {"default", "1", "2"}

StoreSet(s, u, p) ==
    /\ credentials' = set_credentials(credentials, s, u, p)
    /\ ret' = SetCalled(s, u, p)
    /\ ever_set' = [ever_set EXCEPT ![s] = @ \cup {CredDict(u, p)}]
    /\ last_set' = [last_set EXCEPT ![s] = SomeDefault(u, p)]
    /\ UNCHANGED <<unitVars, default_credentials, hash_of, callerVars, poolVars, lockVars,
                   submitted>>

StoreGet(s) ==
    /\ ret' = GetCalled(s, get_credentials(credentials, default_credentials, s))
    /\ UNCHANGED <<unitVars, storeVars, callerVars, poolVars, lockVars, ever_set, last_set,
                   submitted>>

StoreHas(s) ==
    /\ ret' = HasCalled(s, has_credentials(credentials, default_credentials, s))
    /\ UNCHANGED <<unitVars, storeVars, callerVars, poolVars, lockVars, ever_set, last_set,
                   submitted>>

StoreClear(s) ==
    /\ credentials' = clear_credentials(credentials, s)
    /\ ret' = ClearCalled(s)
    /\ last_set' = [last_set EXCEPT ![s] = NotSet]
    /\ UNCHANGED <<unitVars, default_credentials, hash_of, callerVars, poolVars, lockVars, ever_set,
                   submitted>>

NextStore ==
    \/ \E s \in StoreSessionIds, d \in SetInputs : StoreSet(s, d.user, d.password)
    \/ \E s \in StoreSessionIds : StoreGet(s)
    \/ \E s \in StoreSessionIds : StoreHas(s)
    \/ \E s \in StoreSessionIds : StoreClear(s)

\* The credential store alone, under any sequence of calls.
SpecStore == Init /\ [][NextStore]_vars

(***************************************************************************)
(* The store's methods line by line, run by concurrent threads: the `with  *)
(* self._lock` of each method, the membership test and the access to the   *)
(* dictionary that follows it.                                             *)
(***************************************************************************)
ThreadSessionIds == {"1", "2"}
StoreOps == {"set", "get", "has", "clear"}

\* A lock that never makes a thread wait.
lock_never_blocks(holder, t) == TRUE

\* RLock.acquire returns when no other thread holds the lock.
lock_acquirable(holder, t) == holder = NoThread \/ holder = t

\* A thread calls a method of the store.
ThreadCall(t, op, s, u, p) ==
    /\ thread[t].at = "idle"
    /\ thread' = [thread EXCEPT ![t] =
                     InStore("acquire", op, s, u, p, FALSE, NoOutcome, FALSE)]
    /\ UNCHANGED <<unitVars, storeVars, callerVars, poolVars, lock, historyVars>>

\* with self._lock: enter.
ThreadAcquire(t) ==
    /\ thread[t].at = "acquire"
    /\ lock_acquirable(lock, t)
    /\ lock' = t
    /\ thread' = [thread EXCEPT ![t].at = "locked"]
    /\ UNCHANGED <<unitVars, storeVars, callerVars, poolVars, historyVars>>

\* set_credentials: the assignment, and the exit of the with block.
ThreadSetStore(t) ==
    LET m == thread[t]
    IN /\ m.at = "locked" /\ m.op = "set"
       /\ credentials' = set_credentials(credentials, m.session_id, m.user, m.password)
       /\ ever_set' = [ever_set EXCEPT ![m.session_id] = @ \cup {CredDict(m.user, m.password)}]
       /\ last_set' = [last_set EXCEPT ![m.session_id] = SomeDefault(m.user, m.password)]
       /\ lock' = NoThread
       /\ thread' = [thread EXCEPT ![t].at = "done"]
       /\ UNCHANGED <<unitVars, default_credentials, hash_of, callerVars, poolVars, ret,
                      submitted>>

\* get_credentials and clear_credentials: if session_id in self._credentials.
ThreadTest(t) ==
    LET m == thread[t]
    IN /\ m.at = "locked" /\ m.op \in {"get", "clear"}
       /\ thread' = [thread EXCEPT ![t].at = "tested",
                                   ![t].found = m.session_id \in DOMAIN credentials]
       /\ UNCHANGED <<unitVars, storeVars, callerVars, poolVars, lock, historyVars>>

\* get_credentials after the test: the copy of the session's pair, or the
\* copy of the default pair, or the ValueError.
ThreadGetReturn(t) ==
    LET m == thread[t]
        out == IF m.found
               THEN IF m.session_id \in DOMAIN credentials
                    THEN Returned(credentials[m.session_id])
                    ELSE RaisedKeyError(m.session_id)
               ELSE IF DictTruthy(default_credentials)
                    THEN Returned(default_credentials)
                    ELSE RaisedNotFound(m.session_id)
    IN /\ m.at = "tested" /\ m.op = "get"
       /\ lock' = NoThread
       /\ thread' = [thread EXCEPT ![t].at = "done", ![t].out = out]
       /\ UNCHANGED <<unitVars, storeVars, callerVars, poolVars, historyVars>>

\* clear_credentials after the test: del self._credentials[session_id].
ThreadClearDel(t) ==
    LET m == thread[t]
        failed == m.found /\ m.session_id \notin DOMAIN credentials
    IN /\ m.at = "tested" /\ m.op = "clear"
       /\ credentials' = IF m.found /\ ~failed
                         THEN DictDel(credentials, m.session_id)
                         ELSE credentials
       /\ last_set' = IF m.found /\ ~failed
                      THEN [last_set EXCEPT ![m.session_id] = NotSet]
                      ELSE last_set
       /\ lock' = NoThread
       /\ thread' = [thread EXCEPT ![t].at = "done",
                                   ![t].out = IF failed THEN RaisedKeyError(m.session_id)
                                              ELSE NoOutcome]
       /\ UNCHANGED <<unitVars, default_credentials, hash_of, callerVars, poolVars, ret, ever_set,
                      submitted>>

\* has_credentials: the return, and the exit of the with block.
ThreadHas(t) ==
    LET m == thread[t]
    IN /\ m.at = "locked" /\ m.op = "has"
       /\ lock' = NoThread
       /\ thread' = [thread EXCEPT
                        ![t].at = "done",
                        ![t].flag = has_credentials(credentials, default_credentials,
                                                    m.session_id)]
       /\ UNCHANGED <<unitVars, storeVars, callerVars, poolVars, historyVars>>

\* The method's caller has its value.
ThreadDone(t) ==
    /\ thread[t].at = "done"
    /\ thread' = [thread EXCEPT ![t] = IdleThread]
    /\ UNCHANGED <<unitVars, storeVars, callerVars, poolVars, lock, historyVars>>

NextThreads ==
    \/ \E t \in Callers, op \in StoreOps \ {"set"}, s \in ThreadSessionIds :
          ThreadCall(t, op, s, "", "")
    \/ \E t \in Callers, s \in ThreadSessionIds, d \in SetInputs :
          ThreadCall(t, "set", s, d.user, d.password)
    \/ \E t \in Callers : ThreadAcquire(t)
    \/ \E t \in Callers : ThreadSetStore(t)
    \/ \E t \in Callers : ThreadTest(t)
    \/ \E t \in Callers : ThreadGetReturn(t)
    \/ \E t \in Callers : ThreadClearDel(t)
    \/ \E t \in Callers : ThreadHas(t)
    \/ \E t \in Callers : ThreadDone(t)

\* The store under concurrent callers.
SpecThreads == Init /\ [][NextThreads]_vars

(***************************************************************************)
(* The tools, called by concurrent caller threads, and the thread pool.    *)
(***************************************************************************)
\* The contexts of the calls, a client and the id of its request: those of
\* the server specification, and those of the session specification.
CallContexts == {<<"none", 0>>, <<"B", 1>>}
SessionContexts == {<<"none", 0>>} \cup {<<cl, r>> : cl \in {"A", "B"}, r \in RequestIds}
\* The callers that submit batches.
BatchCallers == {"t1"}

\* A client gives each request it has outstanding its own id.
FreshRequest(c, client, rid) ==
    \A o \in Callers \ {c} :
        IF client = "none" \/ pc[o] = "idle"
        THEN TRUE
        ELSE call[o].client # client \/ call[o].rid # rid

CtxOfCall(cl) == ContextOf(cl.client, cl.rid)

\* A pool whose futures never take the value of their call.
SetFuture_dropped(futs, c, i, f) == futs

\* A future of caller c's batch takes a new value, if c still holds it.
SetFuture(futs, c, i, f) ==
    IF i \in DOMAIN futs[c] THEN [futs EXCEPT ![c][i] = f] ELSE futs

\* set_sap_credentials(username, password, ctx)
CallSetSapCredentials(c, client, rid, username, password) ==
    LET session_id == set_sap_credentials_session_id(ContextOf(client, rid), hash_of)
    IN /\ pc[c] = "idle"
       /\ FreshRequest(c, client, rid)
       /\ call' = [call EXCEPT ![c] =
                      SetCall(client, rid, username, password)]
       /\ sid' = [sid EXCEPT ![c] = session_id]
       /\ credentials' = set_credentials(credentials, session_id, username, password)
       /\ result' = [result EXCEPT ![c] =
                        CredentialsSet(session_id, username)]
       /\ pc' = [pc EXCEPT ![c] = "done"]
       /\ UNCHANGED <<unitVars, default_credentials, hash_of, request, futures, poolVars,
                      lockVars, historyVars>>

\* check_session_credentials(ctx), up to the value of has_credentials.
CallCheckSessionCredentials(c, client, rid) ==
    LET session_id == check_session_credentials_session_id(ContextOf(client, rid), hash_of)
        has == has_credentials(credentials, default_credentials, session_id)
    IN /\ pc[c] = "idle"
       /\ FreshRequest(c, client, rid)
       /\ call' = [call EXCEPT ![c] =
                      CheckCall(client, rid)]
       /\ sid' = [sid EXCEPT ![c] = session_id]
       /\ IF has
          THEN /\ pc' = [pc EXCEPT ![c] = "check_get"]
               /\ UNCHANGED result
          ELSE /\ pc' = [pc EXCEPT ![c] = "done"]
               /\ result' = [result EXCEPT ![c] = NoCredentials(session_id)]
       /\ UNCHANGED <<unitVars, storeVars, request, futures, poolVars, lockVars, historyVars>>

\* check_session_credentials: the get_credentials after a true
\* has_credentials, and the return.
CheckGet(c) ==
    LET creds == get_credentials(credentials, default_credentials, sid[c])
    IN /\ pc[c] = "check_get"
       /\ result' = [result EXCEPT ![c] =
                        IF creds.raised
                        THEN ToolRaised(NotFoundMessage(sid[c]))
                        ELSE HasCredentials(sid[c], creds.user)]
       /\ pc' = [pc EXCEPT ![c] = "done"]
       /\ UNCHANGED <<unitVars, storeVars, call, sid, request, futures, poolVars, lockVars,
                      historyVars>>

\* create_sales_order(..., ctx) called as a tool, in the caller's thread,
\* up to the send: the session id, the body, SAPClient("SO", session_id)
\* and the start of post_soap.
CallCreateSalesOrder(c, client, rid, args) ==
    LET session_id == _get_session_id(ContextOf(client, rid), hash_of)
        creds == get_credentials(credentials, default_credentials, session_id)
    IN /\ pc[c] = "idle"
       /\ FreshRequest(c, client, rid)
       /\ call' = [call EXCEPT ![c] =
                      CreateCall(client, rid, args)]
       /\ sid' = [sid EXCEPT ![c] = session_id]
       /\ IF creds.raised
          THEN /\ pc' = [pc EXCEPT ![c] = "done"]
               /\ result' = [result EXCEPT ![c] =
                                ToolRaised(NotFoundMessage(session_id))]
               /\ UNCHANGED request
          ELSE /\ pc' = [pc EXCEPT ![c] = "sending"]
               /\ request' = [request EXCEPT ![c] =
                                 Request("SO", creds, create_sales_order_body(args))]
               /\ UNCHANGED result
       /\ UNCHANGED <<unitVars, storeVars, futures, poolVars, lockVars, historyVars>>

\* The caller's send ends: post_soap returns, and so does the tool.
SalesOrderResponse(c, outcome) ==
    /\ pc[c] = "sending"
    /\ result' = [result EXCEPT ![c] = SoapReturned(post_soap(outcome))]
    /\ request' = [request EXCEPT ![c] = NoRequest]
    /\ pc' = [pc EXCEPT ![c] = "done"]
    /\ UNCHANGED <<unitVars, storeVars, call, sid, futures, poolVars, lockVars, historyVars>>

\* batch_create_sales_orders(orders, ctx), up to the wait: one
\* _thread_pool.submit per order.
CallBatch(c, client, rid, orders) ==
    /\ pc[c] = "idle"
    /\ FreshRequest(c, client, rid)
    /\ call' = [call EXCEPT ![c] =
                   BatchCall(client, rid, orders)]
    /\ sid' = [sid EXCEPT ![c] = _get_session_id(ContextOf(client, rid), hash_of)]
    /\ futures' = [futures EXCEPT ![c] = [i \in DOMAIN orders |-> FuturePending]]
    /\ queue' = queue \o [i \in DOMAIN orders |-> <<c, i>>]
    /\ pc' = [pc EXCEPT ![c] = "waiting"]
    /\ submitted' = [submitted EXCEPT ![c] =
                        SubmittedWith(get_credentials(
                            credentials, default_credentials,
                            _get_session_id(ContextOf(client, rid), hash_of)))]
    /\ UNCHANGED <<unitVars, storeVars, request, result, worker, lockVars, ret, ever_set,
                   last_set>>

\* batch_create_sales_orders: the results list is complete (or a
\* future.result() raised), and the tool returns json.dumps(results).
BatchReturn(c) ==
    /\ pc[c] = "waiting"
    /\ results_ready(futures[c])
    /\ result' = [result EXCEPT ![c] =
                     IF FirstRaised(futures[c]) = 0
                     THEN JsonReturned(batch_results(futures[c]))
                     ELSE ToolRaised(futures[c][FirstRaised(futures[c])].error)]
    /\ pc' = [pc EXCEPT ![c] = "done"]
    /\ UNCHANGED <<unitVars, storeVars, call, sid, request, futures, poolVars, lockVars,
                   historyVars>>

\* The host has the tool's value; the thread takes the next call.
ToolReturn(c) ==
    /\ pc[c] = "done"
    /\ pc' = [pc EXCEPT ![c] = "idle"]
    /\ call' = [call EXCEPT ![c] = NoCall]
    /\ sid' = [sid EXCEPT ![c] = ""]
    /\ futures' = [futures EXCEPT ![c] = <<>>]
    /\ result' = [result EXCEPT ![c] = NoResult]
    /\ submitted' = [submitted EXCEPT ![c] = NotSubmitted]
    /\ UNCHANGED <<unitVars, storeVars, request, poolVars, lockVars, ret, ever_set, last_set>>

\* A free pool thread takes the oldest work item and runs
\* create_single_order up to the send of its create_sales_order, or to the
\* except clause when SAPClient finds no credentials.
WorkerStart(w) ==
    /\ worker[w].state = "idle"
    /\ queue # <<>>
    /\ LET c == Head(queue)[1]
           i == Head(queue)[2]
           order_data == call[c].orders[i]
           args == single_order_args(order_data)
           session_id == _get_session_id(CtxOfCall(call[c]), hash_of)
           creds == get_credentials(credentials, default_credentials, session_id)
       IN IF creds.raised
          THEN /\ futures' = SetFuture(futures, c, i,
                                [single_order_raised(order_data, NotFoundMessage(session_id))
                                    EXCEPT !.nth = FinishedCount(futures[c]) + 1])
               /\ UNCHANGED worker
          ELSE /\ futures' = SetFuture(futures, c, i, FutureRunning)
               /\ worker' = [worker EXCEPT ![w] =
                                Sending(c, i, Request("SO", creds,
                                                      create_sales_order_body(args)))]
    /\ queue' = Tail(queue)
    /\ UNCHANGED <<unitVars, storeVars, pc, call, sid, request, result, lockVars, historyVars>>

\* A pool thread's send ends: post_soap and create_sales_order return,
\* create_single_order returns its record and the future is finished.
WorkerResponse(w, outcome) ==
    /\ worker[w].state = "sending"
    /\ LET c == worker[w].caller
           i == worker[w].index
       IN futures' = SetFuture(futures, c, i,
                        [single_order_returned(call[c].orders[i], post_soap(outcome))
                            EXCEPT !.outcome = outcome,
                                   !.nth = FinishedCount(futures[c]) + 1])
    /\ worker' = [worker EXCEPT ![w] = IdleWorker]
    /\ UNCHANGED <<unitVars, storeVars, pc, call, sid, request, result, queue, lockVars,
                   historyVars>>

Next ==
    \/ \E c \in Callers, x \in CallContexts, d \in SetInputs :
          CallSetSapCredentials(c, x[1], x[2], d.user, d.password)
    \/ \E c \in Callers, x \in CallContexts, a \in DirectArgs :
          CallCreateSalesOrder(c, x[1], x[2], a)
    \/ \E c \in Callers, o \in NetOutcomes : SalesOrderResponse(c, o)
    \/ \E c \in BatchCallers, x \in CallContexts, b \in BatchInputs :
          CallBatch(c, x[1], x[2], b)
    \/ \E c \in Callers : BatchReturn(c)
    \/ \E c \in Callers : ToolReturn(c)
    \/ \E w \in Workers : WorkerStart(w)
    \/ \E w \in Workers, o \in NetOutcomes : WorkerResponse(w, o)

\* The server: tool calls by concurrent callers, and the pool.
Spec == Init /\ [][Next]_vars

\* The order and the reply of the calls of the session specification.
SessionOrderArgs == single_order_args(Order1)
AcceptedReply == Response(200, SoapReply)

\* The single-operation tools called from every kind of context.
NextSession ==
    \/ \E c \in Callers, x \in SessionContexts :
          CallSetSapCredentials(c, x[1], x[2], "u1", "p1")
    \/ \E c \in Callers, x \in SessionContexts : CallCheckSessionCredentials(c, x[1], x[2])
    \/ \E c \in Callers : CheckGet(c)
    \/ \E c \in Callers, x \in SessionContexts :
          CallCreateSalesOrder(c, x[1], x[2], SessionOrderArgs)
    \/ \E c \in Callers : SalesOrderResponse(c, AcceptedReply)
    \/ \E c \in Callers : ToolReturn(c)

\* Session resolution: the tools under every kind of caller context.
SpecSession == InitSession /\ [][NextSession]_vars

(***************************************************************************)
(* SAPClient.post_soap line by line, run by concurrent threads: the        *)
(* thread-local requests.Session of _get_session, the one session.post,    *)
(* and the return statement the outcome of the post leads to.              *)
(***************************************************************************)
\* A namespace that is an attribute of the class: one for all threads.
class_attribute(t) == "SAPClient"

\* SAPClient._thread_local = threading.local(): the namespace a thread
\* reads and writes is its own.
thread_local(t) == t

\* A response with an envelope whose body element is empty.
EmptyBodyReply == Doc(TRUE, "soapenv:Envelope", "soapenv:Body", TRUE)
\* The status codes and the texts of the responses, and the outcomes of a
\* session.post.
StatusCodes == {200, 201, 204, 404, 500}
ResponseTexts == {SoapReply, EmptyBodyReply, ErrorPage, NotXml}
PostOutcomes ==
    {Response(st, tx) : st \in StatusCodes, tx \in ResponseTexts}
        \cup {TimeoutRaised, ExceptionRaised("connection reset")}

\* post_soap has not returned.
NotReturned == [kind |-> "none"]
\* A thread inside post_soap: the line it is at, what hasattr found, the
\* handle _get_session returned, the number of calls of session.post it
\* made, what the post did and the value post_soap returned.
InPostSoap(at, found, handle, sends, outcome, value) ==
    [at |-> at, found |-> found, handle |-> handle, sends |-> sends,
     outcome |-> outcome, value |-> value]

\* A thread calls post_soap on a SAPClient; envelope and headers are built.
PostSoapCall(t) ==
    /\ post[t].at = "idle"
    /\ post' = [post EXCEPT ![t] =
                   InPostSoap("get_session", FALSE, 0, 0, NoSend, NotReturned)]
    /\ UNCHANGED <<storeVars, callerVars, poolVars, lockVars, historyVars,
                   tl_session, handles, held, resolved>>

\* _get_session: hasattr(cls._thread_local, 'session').
GetSessionTest(t) ==
    /\ post[t].at = "get_session"
    /\ LET found == thread_local(t) \in DOMAIN tl_session
       IN post' = [post EXCEPT ![t].found = found,
                               ![t].at = IF found THEN "return_session"
                                         ELSE "new_session"]
    /\ UNCHANGED <<storeVars, callerVars, poolVars, lockVars, historyVars,
                   tl_session, handles, held, resolved>>

\* _get_session: cls._thread_local.session = requests.Session(), and the
\* adapters mounted on it.
GetSessionCreate(t) ==
    /\ post[t].at = "new_session"
    /\ handles' = Append(handles, t)
    /\ tl_session' = DictPut(tl_session, thread_local(t), Len(handles) + 1)
    /\ post' = [post EXCEPT ![t].at = "return_session"]
    /\ UNCHANGED <<storeVars, callerVars, poolVars, lockVars, historyVars,
                   held, resolved>>

\* _get_session: return cls._thread_local.session.
GetSessionReturn(t) ==
    /\ post[t].at = "return_session"
    /\ post' = [post EXCEPT ![t].handle = tl_session[thread_local(t)],
                            ![t].at = "post"]
    /\ UNCHANGED <<storeVars, callerVars, poolVars, lockVars, historyVars,
                   tl_session, handles, held, resolved>>

\* session.post(...): the call, and what it did.
SessionPost(t, outcome) ==
    /\ post[t].at = "post"
    /\ post' = [post EXCEPT ![t].sends = @ + 1,
                            ![t].outcome = outcome,
                            ![t].at = "sent"]
    /\ UNCHANGED <<storeVars, callerVars, poolVars, lockVars, historyVars,
                   tl_session, handles, held, resolved>>

\* The return statement of post_soap that the outcome leads to.
PostSoapReturn(t) ==
    /\ post[t].at = "sent"
    /\ post' = [post EXCEPT ![t].value = post_soap(post[t].outcome),
                            ![t].at = "returned"]
    /\ UNCHANGED <<storeVars, callerVars, poolVars, lockVars, historyVars,
                   tl_session, handles, held, resolved>>

\* The caller of post_soap has its value.
PostSoapDone(t) ==
    /\ post[t].at = "returned"
    /\ post' = [post EXCEPT ![t] = NotPosting]
    /\ UNCHANGED <<storeVars, callerVars, poolVars, lockVars, historyVars,
                   tl_session, handles, held, resolved>>

NextClient ==
    \/ \E t \in Callers : PostSoapCall(t)
    \/ \E t \in Callers : GetSessionTest(t)
    \/ \E t \in Callers : GetSessionCreate(t)
    \/ \E t \in Callers : GetSessionReturn(t)
    \/ \E t \in Callers, o \in PostOutcomes : SessionPost(t, o)
    \/ \E t \in Callers : PostSoapReturn(t)
    \/ \E t \in Callers : PostSoapDone(t)

\* SAPClient under concurrent threads.
SpecClient == Init /\ [][NextClient]_vars

(***************************************************************************)
(* The operation tools on inputs with fields absent, empty and given: the  *)
(* rendering of the request body, and whether a request is sent.           *)
(***************************************************************************)
\* How a caller supplies a field: not at all, as "", or with a value.
FieldChoices == {"absent", "empty", "given"}
\* The fields of a sales order the inputs vary.
VariedFields == {"CUST_PO", "MATERIAL", "PLANT", "ORDER_TYPE"}
GivenValue(f) ==
    CASE f = "CUST_PO" -> PyString("PO9")
      [] f = "CUST_PO_DATE" -> PyString("2025-03-01")
      [] f = "MATERIAL" -> PyString("M9")
      [] f = "PLANT" -> PyString("XP02")
      [] f = "ORDER_TYPE" -> PyString("ZOR")
      [] OTHER -> PyInt(3)
\* The order dict of a choice for each varied field; CUST_PO_DATE and QTY
\* are always given.
OrderOf(ch) ==
    [f \in {"CUST_PO_DATE", "QTY"} \cup {g \in VariedFields : ch[g] # "absent"} |->
        IF f \in VariedFields /\ ch[f] = "empty" THEN PyString("") ELSE GivenValue(f)]
OrderInputs == {OrderOf(ch) : ch \in [VariedFields -> FieldChoices]}

\* The parameters of create_sales_order that have no default: a call must
\* pass them.
RequiredFields == {"CUST_PO", "CUST_PO_DATE", "MATERIAL", "QTY"}
\* The arguments of the direct calls: the required ones passed, the
\* optional ones passed or left to the defaults of the signature.
OrderCallArgs ==
    {single_order_args(o) : o \in {x \in OrderInputs : RequiredFields \subseteq DOMAIN x}}

\* The arguments of maintain_sales_view; PLANT and DELYG_PLNT default to
\* "TP01" when the call does not pass them.
SalesViewArgs ==
    [MATERIAL : {PyString("M9")},
     SALES_ORG : {PyString("CN60"), PyString("TW01"), PyString("US01")},
     DISTR_CHAN : {PyString("03"), PyString("01")},
     UUID : {PyString("")},
     PLANT : {PyString(""), PyString("TP01"), PyString("XP02")},
     DELYG_PLNT : {PyString(""), PyString("TP01"), PyString("XP03")}]

\* xml_body of maintain_sales_view: the text substituted for each element.
maintain_sales_view_body(a) ==
    LET cn == a.SALES_ORG = PyString("CN60") /\ a.DISTR_CHAN = PyString("03")
        tw == a.SALES_ORG = PyString("TW01") /\ a.DISTR_CHAN = PyString("03")
        plant_val == IF cn THEN PyString("CP60")
                     ELSE IF tw THEN PyString("TP01") ELSE a.PLANT
        delyg_plnt_val == IF cn THEN PyString("CP60")
                          ELSE IF tw THEN PyString("TP01") ELSE a.DELYG_PLNT
    IN [root |-> "urn:ZBAPI_MATERIAL_SAVEDATA",
        UUID |-> IF PyTruthy(a.UUID) THEN "<UUID>" \o PyStr(a.UUID) \o "</UUID>" ELSE "",
        MATERIAL |-> PyStr(a.MATERIAL),
        SALES_VIEW |-> "X",
        PLANT |-> OrElse(plant_val, "TP01"),
        SALES_ORG |-> PyStr(a.SALES_ORG),
        DISTR_CHAN |-> PyStr(a.DISTR_CHAN),
        DELYG_PLNT |-> OrElse(delyg_plnt_val, "TP01")]

SalesViewCall(client, rid, args) ==
    [tool |-> "maintain_sales_view", client |-> client, rid |-> rid, args |-> args]

\* maintain_sales_view(..., ctx) called as a tool, up to the send: the
\* session id, the body, SAPClient("MAT", session_id) and the start of
\* post_soap.
CallMaintainSalesView(c, client, rid, args) ==
    LET session_id == _get_session_id(ContextOf(client, rid), hash_of)
        creds == get_credentials(credentials, default_credentials, session_id)
    IN /\ pc[c] = "idle"
       /\ FreshRequest(c, client, rid)
       /\ call' = [call EXCEPT ![c] = SalesViewCall(client, rid, args)]
       /\ sid' = [sid EXCEPT ![c] = session_id]
       /\ IF creds.raised
          THEN /\ pc' = [pc EXCEPT ![c] = "done"]
               /\ result' = [result EXCEPT ![c] =
                                ToolRaised(NotFoundMessage(session_id))]
               /\ UNCHANGED request
          ELSE /\ pc' = [pc EXCEPT ![c] = "sending"]
               /\ request' = [request EXCEPT ![c] =
                                 Request("MAT", creds, maintain_sales_view_body(args))]
               /\ UNCHANGED result
       /\ UNCHANGED <<unitVars, storeVars, futures, poolVars, lockVars, historyVars>>

\* The batches of one element.
OrderBatches == {<<o>> : o \in OrderInputs}

\* One caller, with no ctx, calls the tools on every input; the batches
\* have one element.
NextOrders ==
    \/ CallSetSapCredentials("t1", "none", 0, "u1", "p1")
    \/ \E a \in OrderCallArgs : CallCreateSalesOrder("t1", "none", 0, a)
    \/ \E a \in SalesViewArgs : CallMaintainSalesView("t1", "none", 0, a)
    \/ SalesOrderResponse("t1", AcceptedReply)
    \/ \E b \in OrderBatches : CallBatch("t1", "none", 0, b)
    \/ BatchReturn("t1")
    \/ ToolReturn("t1")
    \/ \E w \in Workers : WorkerStart(w)
    \/ \E w \in Workers : WorkerResponse(w, AcceptedReply)

\* The tools on varied inputs.
SpecOrders == Init /\ [][NextOrders]_vars

(***************************************************************************)
(* The dicts get_credentials returns, as objects: whether the dict a       *)
(* caller holds is one the store also holds.                               *)
(***************************************************************************)
\* The dicts the store holds: the pair of a session, and the default pair.
StoredAt(session_id) == [loc |-> "stored", session |-> session_id]
DefaultAt == [loc |-> "default", session |-> ""]

\* The caller is handed the store's own dict d, held at ref.
dict_alias(ref, d) ==
    [loc |-> ref.loc, session |-> ref.session, user |-> d.user, password |-> d.password]

\* d.copy(): a new dict with the items of d, held by the caller alone.
dict_copy(ref, d) ==
    [loc |-> "copy", session |-> ref.session, user |-> d.user, password |-> d.password]

\* The caller of a get_credentials that raised holds nothing.
HeldNothingRaised == [loc |-> "raised"]

\* get_credentials, by the object it returns.
get_credentials_object(creds, dflt, session_id) ==
    IF session_id \in DOMAIN creds
    THEN dict_copy(StoredAt(session_id), creds[session_id])
    ELSE IF DictTruthy(dflt)
         THEN dict_copy(DefaultAt, dflt)
         ELSE HeldNothingRaised

\* The values a caller writes into the dict it holds.
CallerValues == {"x"}
CredKeys == {"user", "password"}

\* A caller calls get_credentials and keeps the dict it returns.
CallerGet(s) ==
    /\ held' = get_credentials_object(credentials, default_credentials, s)
    /\ ret' = GetCalled(s, get_credentials(credentials, default_credentials, s))
    /\ UNCHANGED <<storeVars, callerVars, poolVars, lockVars, ever_set, last_set, submitted,
                   tl_session, handles, post, resolved>>

\* The caller assigns to a key of the dict it holds: creds[k] = v.  The
\* assignment is to the object, whoever else holds it.
CallerMutate(k, v) ==
    /\ held.loc \in {"copy", "stored", "default"}
    /\ held' = [held EXCEPT ![k] = v]
    /\ credentials' =
          IF held.loc = "stored" /\ held.session \in DOMAIN credentials
          THEN [credentials EXCEPT ![held.session][k] = v]
          ELSE credentials
    /\ default_credentials' =
          IF held.loc = "default"
          THEN [default_credentials EXCEPT ![k] = v]
          ELSE default_credentials
    /\ UNCHANGED <<hash_of, callerVars, poolVars, lockVars, historyVars,
                   tl_session, handles, post, resolved>>

NextCopies ==
    \/ \E s \in ThreadSessionIds, d \in SetInputs : StoreSet(s, d.user, d.password)
    \/ \E s \in ThreadSessionIds : StoreClear(s)
    \/ \E s \in ThreadSessionIds : StoreGet(s)
    \/ \E s \in ThreadSessionIds : CallerGet(s)
    \/ \E k \in CredKeys, v \in CallerValues : CallerMutate(k, v)

\* The store and a caller that writes into what it was returned.
SpecCopies == Init /\ [][NextCopies]_vars

(***************************************************************************)
(* The three copies of the session resolution, on every kind of ctx.       *)
(***************************************************************************)
\* A client_params whose str() is empty.
EmptyParams == Params("")

\* The strings the resolvers hash, and the hash functions on them.
ResolveStrings == {ParamsStr(NoParams), ParamsStr(Params("A")), ParamsStr(Params("B"))}
ResolveHashes == [ResolveStrings -> HashValues]

\* Every ctx: None or an object, with or without request_context, with or
\* without a request_id on it, with or without session, with or without
\* client_params on it, the client_params being None, empty or a client's.
AllContexts ==
    [present : BOOLEAN, has_request_context : BOOLEAN, has_request_id : BOOLEAN,
     request_id : {PyInt(r) : r \in RequestIds}, has_session : BOOLEAN,
     has_client_params : BOOLEAN,
     client_params : {NoParams, EmptyParams, Params("A"), Params("B")}]

\* The ids the three functions computed for ctx.
Resolved(ctx, by_set, by_check, by_get) ==
    [done |-> TRUE, ctx |-> ctx, by_set |-> by_set, by_check |-> by_check,
     by_get |-> by_get]

\* The three resolutions of one ctx in one process.
Resolve(ctx) ==
    /\ resolved' = Resolved(ctx,
                            set_sap_credentials_session_id(ctx, hash_of),
                            check_session_credentials_session_id(ctx, hash_of),
                            _get_session_id(ctx, hash_of))
    /\ UNCHANGED <<storeVars, callerVars, poolVars, lockVars, historyVars,
                   tl_session, handles, post, held>>

InitResolve == Start(ResolveHashes)
NextResolve == \E ctx \in AllContexts : Resolve(ctx)

\* Session resolution alone.
SpecResolve == InitResolve /\ [][NextResolve]_vars

(***************************************************************************)
(* The pool under fair scheduling: batches larger than the pool, submitted *)
(* by concurrent callers.                                                  *)
(***************************************************************************)
\* The batches: one order, and one more order than the pool has threads.
PoolBatches == {[i \in 1..n |-> OrderAt(i)] : n \in {1, MAX_WORKERS + 1}}
\* What a send of an element does: it gets its reply, or it times out.
PoolOutcomes == {Response(200, SoapReply), TimeoutRaised}

NextPool ==
    \/ \E c \in Callers, b \in PoolBatches : CallBatch(c, "none", 0, b)
    \/ \E c \in Callers : BatchReturn(c)
    \/ \E c \in Callers : ToolReturn(c)
    \/ \E w \in Workers : WorkerStart(w)
    \/ \E w \in Workers, o \in PoolOutcomes : WorkerResponse(w, o)

\* A pool thread that is free takes the work that is queued; a send ends,
\* by its reply or by the timeout of session.post; a caller whose futures
\* have finished is woken from future.result().
PoolFairness ==
    /\ \A w \in Workers : WF_vars(WorkerStart(w))
    /\ \A w \in Workers : WF_vars(\E o \in PoolOutcomes : WorkerResponse(w, o))
    /\ \A c \in Callers : WF_vars(BatchReturn(c))

\* The pool and the callers of batches, fairly scheduled.
SpecPool == Init /\ [][NextPool]_vars /\ PoolFairness

(***************************************************************************)
(* check_session_credentials among direct calls of the store by other      *)
(* threads: has_credentials and get_credentials are two calls, each under  *)
(* the lock for itself, and the other threads' calls run between them.     *)
(***************************************************************************)
\* The session ids the tool's contexts resolve to, and one more.
CheckSessionIds == {"default", "1"}

NextCheck ==
    \/ \E c \in Callers, x \in CallContexts : CallCheckSessionCredentials(c, x[1], x[2])
    \/ \E c \in Callers : CheckGet(c)
    \/ \E c \in Callers : ToolReturn(c)
    \/ \E s \in CheckSessionIds, d \in SetInputs : StoreSet(s, d.user, d.password)
    \/ \E s \in CheckSessionIds : StoreClear(s)

\* check_session_credentials while the store is set and cleared.
SpecCheck == Init /\ [][NextCheck]_vars

(***************************************************************************)
(* Claims about the credential store (SpecStore).                          *)
(***************************************************************************)
\* The explicit pair of session b is the same before and after the step.
SameEntry(b) ==
    /\ (b \in DOMAIN credentials') = (b \in DOMAIN credentials)
    /\ b \in DOMAIN credentials => credentials'[b] = credentials[b]

\* C1: session isolation.  A set_credentials or clear_credentials on
\* session a changes, for no other session b, what get_credentials(b)
\* returns, nor the explicit pair b has: b never comes to see a pair that
\* was set for a.
C1_SessionIsolation ==
    [][\A b \in StoreSessionIds :
          (ret'.op \in {"set", "clear"} /\ ret'.session_id # b) =>
              /\ get_credentials(credentials', default_credentials', b)
                   = get_credentials(credentials, default_credentials, b)
              /\ SameEntry(b)]_vars

\* C1's case: session "1" was just set while session "2" holds a different
\* explicit pair.
C1_Witness ==
    /\ ret.op = "set" /\ ret.session_id = "1"
    /\ "2" \in DOMAIN credentials
    /\ credentials["2"] # credentials["1"]

\* C2: visibility of a set pair.  A get_credentials on a session whose
\* last set has not been cleared returns exactly the pair of that last set.
C2_SetPairVisible ==
    (ret.op = "get" /\ ~last_set[ret.session_id].none) =>
        ret.out = Returned(last_set[ret.session_id])

\* C2's case: a get on a session that was set twice, with different pairs.
C2_Witness ==
    /\ ret.op = "get"
    /\ ~last_set[ret.session_id].none
    /\ Cardinality(ever_set[ret.session_id]) = 2

\* C8: get_credentials on a session with no explicit pair returns the
\* default pair when there is one, and otherwise raises the error that
\* names the session; the raising call leaves the store as it was.
C8_GetWithoutExplicitPair ==
    [][(ret'.op = "get" /\ ret'.session_id \notin DOMAIN credentials) =>
          /\ ret'.out = IF ~default_credentials.none
                        THEN Returned(default_credentials)
                        ELSE RaisedNotFound(ret'.session_id)
          /\ ret'.out.raised =>
                credentials' = credentials /\ default_credentials' = default_credentials
      ]_vars

\* C8's case: a get that raised for its session while another session has
\* a pair.
C8_Witness ==
    /\ ret.op = "get" /\ ret.out.raised
    /\ ret.out.session = ret.session_id
    /\ DOMAIN credentials # {}

\* C9: clear_credentials returns the session to the never-set state.
\* After it, get_credentials and has_credentials on the session give what
\* they give in a store where no set ever happened; on a session with no
\* explicit pair it changes nothing.
C9_ClearRestoresNeverSet ==
    [][ret'.op = "clear" =>
          LET s == ret'.session_id
          IN /\ get_credentials(credentials', default_credentials', s)
                  = get_credentials(EmptyDict, default_credentials, s)
             /\ has_credentials(credentials', default_credentials', s)
                  = has_credentials(EmptyDict, default_credentials, s)
             /\ s \notin DOMAIN credentials => credentials' = credentials
      ]_vars

\* C9's case: a clear on a session that was set twice before.
C9_Witness ==
    /\ ret.op = "clear"
    /\ Cardinality(ever_set[ret.session_id]) = 2
    /\ ret.session_id \notin DOMAIN credentials

(***************************************************************************)
(* Claims about the store under concurrent threads (SpecThreads).          *)
(***************************************************************************)
\* The pairs a get on session s may return: those set for s so far, and
\* the default pair.
OwnPairs(s) ==
    {Returned(d) : d \in ever_set[s]}
        \cup (IF default_credentials.none THEN {} ELSE {Returned(default_credentials)})

\* C3: a get_credentials that ran among concurrent set, get, has and clear
\* calls returned a pair that one set wrote whole for its own session id,
\* or the default pair; it raised only the not-found error, and only with
\* no default pair.
C3_ConcurrentGetAtomic ==
    \A t \in Callers :
        (thread[t].at = "done" /\ thread[t].op = "get") =>
            IF thread[t].out.raised
            THEN thread[t].out = RaisedNotFound(thread[t].session_id)
                 /\ default_credentials.none
            ELSE thread[t].out \in OwnPairs(thread[t].session_id)

\* C3's case: a get returned session "1"'s pair, that session was set with
\* both pairs, and the other thread is inside a set on the other session.
C3_Witness ==
    \E t, o \in Callers :
        /\ t # o
        /\ thread[t].at = "done" /\ thread[t].op = "get" /\ ~thread[t].out.raised
        /\ thread[t].session_id = "1"
        /\ Cardinality(ever_set["1"]) = 2
        /\ thread[o].at \in {"acquire", "locked"} /\ thread[o].op = "set"
        /\ thread[o].session_id = "2"

(***************************************************************************)
(* Claims about the tools and the pool (Spec).                             *)
(***************************************************************************)
\* The remote calls in flight: the sends of the pool's threads and those
\* of the callers' own threads.
InFlight ==
    Cardinality({w \in Workers : worker[w].state = "sending"})
        + Cardinality({c \in Callers : pc[c] = "sending"})

\* C4: at every moment at most MAX_WORKERS remote calls are in flight,
\* the calls of single-operation tools included.
C4_InFlightWithinCeiling == InFlight <= MAX_WORKERS

\* Caller c's batch has returned.
BatchDone(c) == pc[c] = "done" /\ call[c].tool = "batch_create_sales_orders"

\* The correlation tag of an input: its CUST_PO, and "unknown" for an
\* input that has none.
ExpectedTag(order_data) ==
    IF "CUST_PO" \in DOMAIN order_data THEN order_data["CUST_PO"] ELSE PyString("unknown")

\* C5: a batch of N orders returns N records, and record i carries the
\* tag of input i, in whatever order the pool's calls ended.
C5_BatchResultsCorrelated ==
    \A c \in Callers :
        BatchDone(c) =>
            /\ result[c].kind = "json"
            /\ Len(result[c].records) = Len(call[c].orders)
            /\ \A i \in DOMAIN call[c].orders :
                  result[c].records[i].order = ExpectedTag(call[c].orders[i])

\* C5's case: a batch of two has returned whose second call ended first.
C5_Witness ==
    \E c \in Callers :
        /\ BatchDone(c)
        /\ Len(call[c].orders) = 2
        /\ futures[c][2].nth = 1
        /\ futures[c][1].nth = 2

\* C6: a failing element does not abort its batch.  A batch that has
\* returned returned a list with one record per element; every element
\* ran to its end, and its record is its own: the failure of an element
\* that found no credentials, or what post_soap made of the element's own
\* send.
C6_FailingElementDoesNotAbort ==
    \A c \in Callers :
        BatchDone(c) =>
            /\ result[c].kind = "json"
            /\ DOMAIN result[c].records = DOMAIN call[c].orders
            /\ \A i \in DOMAIN call[c].orders :
                  /\ futures[c][i].state = "finished"
                  /\ IF futures[c][i].outcome = NoSend
                     THEN /\ ~result[c].records[i].success
                          /\ result[c].records[i].error = NotFoundMessage(sid[c])
                     ELSE /\ "result" \in DOMAIN result[c].records[i]
                          /\ result[c].records[i].result
                               = post_soap(futures[c][i].outcome)

\* C6's case: a batch of two has returned whose first element raised for
\* want of credentials and whose second element got its reply.
C6_Witness ==
    \E c \in Callers :
        /\ BatchDone(c)
        /\ Len(call[c].orders) = 2
        /\ ~result[c].records[1].success
        /\ result[c].records[1].error = NotFoundMessage(sid[c])
        /\ result[c].records[2].success
        /\ result[c].records[2].result.kind = "body"

\* An element's invocation succeeded: its send got a 2xx response.
InvocationSucceeded(f) == f.outcome.kind = "response" /\ f.outcome.status \in 200..299

\* C7: record i of a batch has success = true if and only if invocation i
\* succeeded.
C7_SuccessFlagTruthful ==
    \A c \in Callers :
        (BatchDone(c) /\ result[c].kind = "json") =>
            \A i \in DOMAIN result[c].records :
                result[c].records[i].success = InvocationSucceeded(futures[c][i])

(***************************************************************************)
(* Claims about session resolution (SpecSession).                          *)
(***************************************************************************)
\* C10: two tool calls made with contexts of the same client session
\* resolve to the same session id.
C10_SameSessionSameId ==
    \A c1, c2 \in Callers :
        (pc[c1] # "idle" /\ pc[c2] # "idle" /\ call[c1].client = call[c2].client) =>
            sid[c1] = sid[c2]

(***************************************************************************)
(* Claims about SAPClient (SpecClient).                                    *)
(***************************************************************************)
\* The kinds of value post_soap returns.
ResultKinds == {"body", "text", "http_error", "timeout", "connection_error"}

\* C11: no exception escapes post_soap and it sends at most once.  A
\* post_soap that has ended returned a value, whatever its send did; after
\* a timeout the value names REQUEST_TIMEOUT, after another exception it
\* carries the exception's message; and the call made exactly one
\* session.post, a call still running at most one.
C11_PostSoapReturnsAndSendsOnce ==
    \A t \in Callers :
        /\ post[t].at # "idle" => post[t].sends <= 1
        /\ post[t].at = "returned" =>
              /\ post[t].sends = 1
              /\ post[t].value.kind \in ResultKinds
              /\ post[t].outcome.kind = "timeout" =>
                    post[t].value = TimeoutResult(REQUEST_TIMEOUT)
              /\ post[t].outcome.kind = "exception" =>
                    post[t].value = ConnectionErrorResult(post[t].outcome.message)

\* C11's case: one thread's post_soap has returned after a timeout and the
\* other's after a connection error.
C11_Witness ==
    \E t, o \in Callers :
        /\ post[t].at = "returned" /\ post[t].outcome = TimeoutRaised
        /\ post[o].at = "returned" /\ post[o].outcome.kind = "exception"

\* The reply has a payload to extract: it parses, its root is an envelope
\* and the envelope has a body that is not empty.
HasPayload(text) ==
    /\ text.wellformed
    /\ text.root \in EnvelopeNames
    /\ text.body \in BodyNames
    /\ ~text.body_empty

\* C12: classification by status.  For a response with a status in
\* 200..299 post_soap returns the payload of the reply, or the raw text
\* when there is no payload to extract; for any other status it returns
\* the failure that carries the status and the raw text.
C12_ClassifiedByStatus ==
    \A t \in Callers :
        (post[t].at = "returned" /\ post[t].outcome.kind = "response") =>
            LET o == post[t].outcome
            IN IF o.status \in 200..299
               THEN post[t].value = IF HasPayload(o.text) THEN BodyResult(o.text)
                                    ELSE TextResult(o.text)
               ELSE post[t].value = HttpErrorResult(o.status, o.text)

\* The handles thread t created.
CreatedBy(t) == {h \in DOMAIN handles : handles[h] = t}

\* C17: connection ownership.  The handle _get_session returned to a thread
\* is one that thread created, and a thread creates at most one: every
\* call after the thread's first returns the handle of the first.
C17_HandleOwnedByThread ==
    \A t \in Callers :
        /\ Cardinality(CreatedBy(t)) <= 1
        /\ post[t].at \in {"post", "sent", "returned"} =>
              post[t].handle \in CreatedBy(t)

\* C17's case: two threads are sending at once, each on its own handle,
\* one of them in a call that found its handle already there.
C17_Witness ==
    \E t, o \in Callers :
        /\ t # o
        /\ post[t].at = "post" /\ post[t].found
        /\ post[o].at = "post"
        /\ post[o].handle # post[t].handle

(***************************************************************************)
(* Claims about the rendering of requests (SpecOrders).                    *)
(***************************************************************************)
\* The input omits a required field: the field is absent or it is "".
OmitsRequired(input) ==
    \E f \in RequiredFields : f \notin DOMAIN input \/ input[f] = PyString("")

\* C13: an invocation that omits a required field makes no network call
\* and fails, as a single call and as an element of a batch: no request of
\* it is ever being sent, and what it ends with is an error.
C13_MissingRequiredFieldFails ==
    /\ \A c \in Callers :
          (pc[c] \in {"sending", "done"} /\ call[c].tool = "create_sales_order"
                /\ OmitsRequired(call[c].args)) =>
              /\ pc[c] # "sending"
              /\ result[c].kind = "raised"
    /\ \A w \in Workers :
          worker[w].state = "sending" =>
              ~OmitsRequired(call[worker[w].caller].orders[worker[w].index])
    /\ \A c \in Callers :
          BatchDone(c) =>
              \A i \in DOMAIN call[c].orders :
                  OmitsRequired(call[c].orders[i]) => ~result[c].records[i].success

\* The documented defaults of the optional fields of create_sales_order
\* and of maintain_sales_view.
SalesOrderDefaults ==
    [ORDER_TYPE |-> "ZIES", SALES_ORG |-> "TW01", SALES_CHANNEL |-> "03",
     SALES_DIVISION |-> "01", SOLD_TO_PARTY |-> "HRCTO-IMX",
     SHIP_TO_PARTY |-> "HRCTO-MX", PLANT |-> "TP01", SHIPPING_POINT |-> "TW01"]
SalesViewDefaults == [PLANT |-> "TP01", DELYG_PLNT |-> "TP01"]

\* What the rendered request is to carry for the optional fields: the
\* caller's value where the input has a non-empty one, and the default.
Carries(body, input, defaults) ==
    \A f \in DOMAIN defaults :
        body[f] = IF f \in DOMAIN input /\ PyTruthy(input[f])
                  THEN PyStr(input[f])
                  ELSE defaults[f]

\* The input of the call a caller's own thread is sending, as a dict.
ArgsDict(args) == [f \in DOMAIN args |-> args[f]]

\* C19: every request that is sent carries, for each optional field of its
\* operation, the caller's value when the caller gave a non-empty one and
\* the field's default otherwise, for a single call and for an element of
\* a batch.
C19_OptionalFieldDefaults ==
    /\ \A c \in Callers :
          pc[c] = "sending" =>
              Carries(request[c].body, ArgsDict(call[c].args),
                      IF call[c].tool = "maintain_sales_view"
                      THEN SalesViewDefaults ELSE SalesOrderDefaults)
    /\ \A w \in Workers :
          worker[w].state = "sending" =>
              Carries(worker[w].request.body,
                      call[worker[w].caller].orders[worker[w].index],
                      SalesOrderDefaults)

\* The same of the requests of create_sales_order and of the batch alone.
SalesOrderDefaultsApplied ==
    /\ \A c \in Callers :
          (pc[c] = "sending" /\ call[c].tool = "create_sales_order") =>
              Carries(request[c].body, ArgsDict(call[c].args), SalesOrderDefaults)
    /\ \A w \in Workers :
          worker[w].state = "sending" =>
              Carries(worker[w].request.body,
                      call[worker[w].caller].orders[worker[w].index],
                      SalesOrderDefaults)

(***************************************************************************)
(* Further claims about the credential store (SpecStore).                  *)
(***************************************************************************)
\* C14: has_credentials(S) is true exactly when S has an explicit pair or
\* the process has a default pair, which is exactly when get_credentials(S)
\* on the same store returns a pair; and has_credentials leaves the store
\* as it was.
C14_HasIffGetSucceeds ==
    [][ret'.op = "has" =>
          LET s == ret'.session_id
          IN /\ ret'.flag = (s \in DOMAIN credentials \/ ~default_credentials.none)
             /\ ret'.flag = ~get_credentials(credentials, default_credentials, s).raised
             /\ credentials' = credentials
             /\ default_credentials' = default_credentials
      ]_vars

\* C14's case: has_credentials was false for a session, with no default
\* pair, while another session has an explicit pair.
C14_Witness ==
    /\ ret.op = "has" /\ ~ret.flag
    /\ DOMAIN credentials # {}

(***************************************************************************)
(* Claims about the returned dicts (SpecCopies).                           *)
(***************************************************************************)
\* The default pairs the process can start with.
StartDefaults == {SessionCredentialStore_init(eu, ep) : eu \in EnvUsers, ep \in EnvPasswords}

\* C15: returned pairs are copies.  Whatever a caller wrote into a dict it
\* got from get_credentials, a session's stored pair is the pair last set
\* for it, that pair is what get_credentials returns for it, and the
\* default pair is the one the process started with.
C15_ReturnedPairsAreCopies ==
    /\ \A s \in ThreadSessionIds :
          ~last_set[s].none =>
              /\ s \in DOMAIN credentials
              /\ credentials[s] = CredDict(last_set[s].user, last_set[s].password)
              /\ get_credentials(credentials, default_credentials, s)
                   = Returned(last_set[s])
    /\ default_credentials \in StartDefaults
    /\ ret.op = "get" =>
          ret.out = get_credentials(credentials, default_credentials, ret.session_id)

\* C15's case: the caller has written both keys of the dict it got for a
\* session that has an explicit pair, and the value of the last
\* get_credentials on that session has none of what the caller wrote.
C15_Witness ==
    /\ held.loc = "copy" /\ held.session # ""
    /\ held.user \in CallerValues /\ held.password \in CallerValues
    /\ ~last_set[held.session].none
    /\ ret.op = "get" /\ ret.session_id = held.session
    /\ ret.out.user \notin CallerValues

(***************************************************************************)
(* Further claims about session resolution (SpecSession).                  *)
(***************************************************************************)
\* Caller c starts, in this step, a call of tool with no ctx.
StartsContextless(c, tool) ==
    /\ pc[c] = "idle" /\ pc'[c] # "idle"
    /\ call'[c].tool = tool /\ call'[c].client = "none"

\* C16: every call with no ctx resolves to the session id 'default', and
\* the calls with no ctx share that session: the pair one of them sets is
\* the pair stored under 'default', which is the pair the request of any
\* other of them is sent with and the pair check_session_credentials
\* reports to it.
C16_ContextlessCallsShareDefault ==
    [][\A c \in Callers :
          /\ (pc'[c] # "idle" /\ call'[c].client = "none") => sid'[c] = "default"
          /\ StartsContextless(c, "set_sap_credentials") =>
                /\ "default" \in DOMAIN credentials'
                /\ credentials'["default"]
                     = CredDict(call'[c].username, call'[c].password)
          /\ (StartsContextless(c, "create_sales_order")
                /\ "default" \in DOMAIN credentials) =>
                /\ pc'[c] = "sending"
                /\ request'[c].user = credentials["default"].user
                /\ request'[c].password = credentials["default"].password
          /\ (pc[c] = "check_get" /\ pc'[c] = "done" /\ call[c].client = "none"
                /\ "default" \in DOMAIN credentials) =>
                result'[c] = HasCredentials("default", credentials["default"].user)
      ]_vars

\* C16's case: with no default pair, one caller has set a pair with no ctx
\* and another caller, with no ctx, is sending its request with that pair.
C16_Witness ==
    /\ default_credentials.none
    /\ pc["t1"] = "done" /\ call["t1"].tool = "set_sap_credentials"
    /\ call["t1"].client = "none"
    /\ pc["t2"] = "sending" /\ call["t2"].client = "none"
    /\ request["t2"].user = call["t1"].username
    /\ request["t2"].password = call["t1"].password

(***************************************************************************)
(* Claims about the three resolvers (SpecResolve).                         *)
(***************************************************************************)
\* C20: for every ctx, set_sap_credentials, check_session_credentials and
\* _get_session_id compute the same session id: the id a pair is stored
\* under is the id every operation tool looks it up under.
C20_ResolversAgree ==
    resolved.done =>
        /\ resolved.by_set = resolved.by_get
        /\ resolved.by_check = resolved.by_get

\* C20's case: a ctx whose session has client_params of a client was
\* resolved, to the hash of their string and not to the request id.
C20_Witness ==
    /\ resolved.done
    /\ resolved.ctx.present /\ resolved.ctx.has_request_context
    /\ resolved.ctx.has_session /\ resolved.ctx.has_client_params
    /\ resolved.ctx.client_params = Params("A")
    /\ resolved.by_set = IntToStr(hash_of[ParamsStr(Params("A"))])
    /\ resolved.by_set # PyStr(resolved.ctx.request_id)

(***************************************************************************)
(* Claims about the pool under fair scheduling (SpecPool).                 *)
(***************************************************************************)
\* C18: every batch that was submitted returns, whatever its size and
\* whatever other batches are queued with it: a caller that waits for its
\* futures comes to have its results list.
C18_BatchEventuallyReturns ==
    \A c \in Callers : (pc[c] = "waiting") ~> (pc[c] = "done")

\* C18's case: a batch of more orders than the pool has threads has
\* returned with all its records while the other caller's batch of that
\* size is still waiting.
C18_Witness ==
    \E c, o \in Callers :
        /\ c # o
        /\ BatchDone(c) /\ Len(call[c].orders) > MAX_WORKERS
        /\ result[c].kind = "json" /\ Len(result[c].records) = Len(call[c].orders)
        /\ pc[o] = "waiting" /\ Len(call[o].orders) > MAX_WORKERS

(***************************************************************************)
(* Claims about the pair a batch is sent with (Spec).                      *)
(***************************************************************************)
\* The pair a request is sent with, as get_credentials returns a pair.
PairOf(req) == [raised |-> FALSE, user |-> req.user, password |-> req.password]

\* C21: one pair per batch.  The request of every element of a batch is
\* sent with the pair the batch's session had when the batch was submitted,
\* whatever set_sap_credentials calls other threads make on that session
\* while the batch runs; so two elements of one batch are never being sent
\* with different pairs.
C21_BatchUsesPairAtSubmission ==
    /\ \A w \in Workers :
          worker[w].state = "sending" =>
              LET at_submit == submitted[worker[w].caller]
              IN IF at_submit.none THEN TRUE
                 ELSE IF at_submit.out.raised THEN TRUE
                 ELSE PairOf(worker[w].request) = at_submit.out
    /\ \A w, v \in Workers :
          (worker[w].state = "sending" /\ worker[v].state = "sending"
                /\ worker[w].caller = worker[v].caller) =>
              PairOf(worker[w].request) = PairOf(worker[v].request)

(***************************************************************************)
(* Claims about check_session_credentials (SpecCheck).                     *)
(***************************************************************************)
\* C22: with no default pair, check_session_credentials never raises.  A
\* call that has ended returned one of its two status strings, whatever
\* set_credentials and clear_credentials calls other threads made on its
\* session between its has_credentials and its get_credentials.
C22_CheckNeverRaises ==
    \A c \in Callers :
        (pc[c] = "done" /\ call[c].tool = "check_session_credentials"
              /\ default_credentials.none) =>
            result[c].kind \in {"has_credentials", "no_credentials"}

====
